---- MODULE Spec2Model ----
(***************************************************************************)
(* Model of the wifi manager of bricc (src/src/wifi.rs, src/src/main.rs):  *)
(* the command channel, the status channel, the actor thread spawned by   *)
(* WifiManager::init, the configuration store it owns, the reconciliation *)
(* engine reconfigure_wifi and the radio driver it calls.                  *)
(*                                                                         *)
(* Option<T> is modelled as a sequence: <<>> is None, <<v>> is Some(v).    *)
(* Fields marked "ghost" are not in the program; they record history that  *)
(* the properties talk about (send order, driver calls of a pass).         *)
(***************************************************************************)
EXTENDS Integers, Sequences, FiniteSets, TLC

\* ---------------------------------------------------------------- bounds
\* Number of handle calls made by the callers in one behaviour.
MaxCmds == 2
\* Number of idle timeouts of recv_timeout in one behaviour.
MaxTicks == 1
\* Length of the longest scan result the driver returns.
MaxScan == 2

\* Network names and keys the callers use, and what the radio can see.
ClientSSIDs == {"home", "other"}
ApSSIDs == {"bricc", "home"}
ClientKeys == {"secret", "hunter2"}
ApKeys == {"showscreen"}
ScanSSIDs == {"home", "other"}
Strengths == {10, 40}

None == <<>>
Some(v) == <<v>>
is_some(o) == o # <<>>
unwrap(o) == o[1]

\* ------------------------------------------------------ types of wifi.rs
\* enum WifiCommand; seq is ghost: the position of the command in send order.
ConnectWPA2PSK(ssid, key, n) ==
    [tag |-> "ConnectWPA2PSK", ssid |-> ssid, key |-> key, seq |-> n]
CreateApWPA2PSK(ssid, key, n) ==
    [tag |-> "CreateApWPA2PSK", ssid |-> ssid, key |-> key, seq |-> n]

\* enum WifiError, enum WifiStatus
Fatal(msg) == [kind |-> "Fatal", text |-> msg]
NetworkNotFound(ssid) == [kind |-> "NetworkNotFound", text |-> ssid]
NoError == [kind |-> "", text |-> ""]

Connected(ssid, strength) ==
    [tag |-> "Connected", ssid |-> ssid, strength |-> strength, err |-> NoError]
ApOnly(ssid) ==
    [tag |-> "ApOnly", ssid |-> ssid, strength |-> 0, err |-> NoError]
Disconnected ==
    [tag |-> "Disconnected", ssid |-> "", strength |-> 0, err |-> NoError]
Error(e) ==
    [tag |-> "Error", ssid |-> "", strength |-> 0, err |-> e]

\* Variant: the driver error is reported as a network that was not found.
FromEspErrorNotFound == NetworkNotFound("")

\* impl From<EspError> for WifiError
FromEspError == Fatal("Unknown error during wifi operation")

\* embedded_svc::wifi::ClientConfiguration / AccessPointConfiguration as the
\* program builds them; channel is an Option.
\* Variant: the two strings end up in each other's field.
ClientConfigurationSwapped(ssid, key) ==
    [ssid |-> key, password |-> ssid, channel |-> None]

ClientConfiguration(ssid, key) ==
    [ssid |-> ssid, password |-> key, channel |-> None]
AccessPointConfiguration(ssid, key) ==
    [ssid |-> ssid, password |-> key, channel |-> Some(1),
     auth_method |-> "WPA2WPA3Personal"]

\* embedded_svc::wifi::Configuration
ConfigurationNone == [mode |-> "None", client |-> None, ap |-> None]
ConfigurationClient(c) == [mode |-> "Client", client |-> Some(c), ap |-> None]
ConfigurationAccessPoint(a) ==
    [mode |-> "AccessPoint", client |-> None, ap |-> Some(a)]
ConfigurationMixed(c, a) ==
    [mode |-> "Mixed", client |-> Some(c), ap |-> Some(a)]
\* What the radio holds after a set_configuration that returned an error.
ConfigurationUndefined == [mode |-> "Undefined", client |-> None, ap |-> None]

\* ----------------------------------------------------------------- state
VARIABLES
    command_channel,  \* mpsc channel of WifiCommand, oldest first
    status_channel,   \* mpsc channel of WifiStatus, oldest first; never read
    send_result,      \* what the last handle call returned
    pc,               \* position of the actor thread
    configs,          \* WifiManagerConfig owned by the actor
    esp_wifi,         \* configuration the radio holds
    aps,              \* rest of the scan iterator of the running pass
    status,           \* Option: status computed by the running iteration
    current,          \* Option: the command `c` of the running iteration
    consumed,         \* ghost: the commands consumed so far, in order
    driver_calls,     \* ghost: driver calls of the running/last iteration
    sent              \* ghost: number of commands enqueued so far

vars == <<command_channel, status_channel, send_result, pc, configs, esp_wifi,
          aps, status, current, consumed, driver_calls, sent>>

\* struct WifiManagerConfig
WifiManagerConfig(clients, ap) == [client_configs |-> clients, ap_config |-> ap]
EmptyMap == [s \in {} |-> None]

Init ==
    /\ command_channel = <<>>
    /\ status_channel = <<>>
    /\ send_result = "none"
    /\ pc = "start"
    /\ configs = WifiManagerConfig(EmptyMap, None)
    /\ esp_wifi = ConfigurationNone
    /\ aps = <<>>
    /\ status = None
    /\ current = None
    /\ consumed = <<>>
    /\ driver_calls = <<>>
    /\ sent = 0

\* ------------------------------------------------- configuration store
\* Variant: HashMap::entry(k).or_insert(v), an existing entry is kept.
insert_keep(map, k, v) ==
    [s \in DOMAIN map \cup {k} |-> IF s \in DOMAIN map THEN map[s] ELSE v]

\* HashMap::insert
insert(map, k, v) ==
    [s \in DOMAIN map \cup {k} |-> IF s = k THEN v ELSE map[s]]
\* HashMap::get
get(map, k) == IF k \in DOMAIN map THEN Some(map[k]) ELSE None
is_empty(map) == DOMAIN map = {}

\* Variant: an access point that is already set is kept.
make_ap_wpa2_psk_keep(c, ssid, key) ==
    IF is_some(c.ap_config) THEN c
    ELSE [c EXCEPT !.ap_config = Some(AccessPointConfiguration(ssid, key))]

\* Variant: the store is rebuilt around the access point and loses the
\* client networks.
make_ap_wpa2_psk_clears_clients(c, ssid, key) ==
    WifiManagerConfig(EmptyMap, Some(AccessPointConfiguration(ssid, key)))

make_ap_wpa2_psk(c, ssid, key) ==
    [c EXCEPT !.ap_config = Some(AccessPointConfiguration(ssid, key))]

\* Variant: the store is rebuilt around the new entry and loses ap_config.
connect_wpa2_psk_drops_ap(c, ssid, key) ==
    WifiManagerConfig(
        insert(c.client_configs, ssid, ClientConfiguration(ssid, key)), None)

connect_wpa2_psk(c, ssid, key) ==
    [c EXCEPT !.client_configs =
        insert(c.client_configs, ssid, ClientConfiguration(ssid, key))]

\* ---------------------------------------------------------- the handle
\* Variant: the channel hands out the newest command first.
HandleSendLifo(cmd) ==
    /\ sent < MaxCmds
    /\ IF pc = "dead"
       THEN /\ send_result' = "Err"
            /\ UNCHANGED command_channel
       ELSE /\ send_result' = "Ok"
            /\ command_channel' = <<cmd>> \o command_channel
    /\ sent' = sent + 1
    /\ UNCHANGED <<status_channel, pc, configs, esp_wifi, aps, status,
                   current, consumed, driver_calls>>

\* Variant: the send is reported as delivered and queued although the
\* receiver is gone.
HandleSendIgnoreDead(cmd) ==
    /\ sent < MaxCmds
    /\ send_result' = "Ok"
    /\ command_channel' = Append(command_channel, cmd)
    /\ sent' = sent + 1
    /\ UNCHANGED <<status_channel, pc, configs, esp_wifi, aps, status,
                   current, consumed, driver_calls>>

\* Variant: the handle shares the store with the actor and registers the
\* network itself before it sends the command.
HandleSendSharedStore(cmd) ==
    /\ sent < MaxCmds
    /\ IF pc = "dead"
       THEN /\ send_result' = "Err"
            /\ UNCHANGED <<command_channel, configs>>
       ELSE /\ send_result' = "Ok"
            /\ command_channel' = Append(command_channel, cmd)
            /\ configs' = IF cmd.tag = "ConnectWPA2PSK"
                          THEN connect_wpa2_psk(configs, cmd.ssid, cmd.key)
                          ELSE make_ap_wpa2_psk(configs, cmd.ssid, cmd.key)
    /\ sent' = sent + 1
    /\ UNCHANGED <<status_channel, pc, esp_wifi, aps, status,
                   current, consumed, driver_calls>>

\* Sender::send: Err when the receiver was dropped (the actor thread is gone).
HandleSend(cmd) ==
    /\ sent < MaxCmds
    /\ IF pc = "dead"
       THEN /\ send_result' = "Err"
            /\ UNCHANGED command_channel
       ELSE /\ send_result' = "Ok"
            /\ command_channel' = Append(command_channel, cmd)
    /\ sent' = sent + 1
    /\ UNCHANGED <<status_channel, pc, configs, esp_wifi, aps, status,
                   current, consumed, driver_calls>>

add_network_wpa2_psk ==
    \E ssid \in ClientSSIDs, key \in ClientKeys :
        HandleSend(ConnectWPA2PSK(ssid, key, sent + 1))

set_ap_wpa2_psk ==
    \E ssid \in ApSSIDs, key \in ApKeys :
        HandleSend(CreateApWPA2PSK(ssid, key, sent + 1))

\* ------------------------------------------------------------ the driver
\* Results EspWifi::scan can return: Ok(list of access points).
RECURSIVE SeqsUpTo(_, _)
SeqsUpTo(S, n) ==
    IF n = 0 THEN {<<>>}
    ELSE LET shorter == SeqsUpTo(S, n - 1)
         IN shorter \cup {Append(q, x) : q \in {r \in shorter : Len(r) = n - 1}, x \in S}

AccessPointInfo == [ssid : ScanSSIDs, signal_strength : Strengths]
ScanResults == SeqsUpTo(AccessPointInfo, MaxScan)

\* Entries of the ghost log of driver calls.
ScanCall(ok, result) ==
    [op |-> "scan", target |-> ConfigurationNone, ok |-> ok, result |-> result]
SetConfigurationCall(conf, ok) ==
    [op |-> "set_configuration", target |-> conf, ok |-> ok, result |-> <<>>]

\* EspWifi::set_configuration(conf) returning Ok or Err.
set_configuration(conf, ok) ==
    /\ driver_calls' = Append(driver_calls, SetConfigurationCall(conf, ok))
    /\ IF ok THEN esp_wifi' = conf
             ELSE esp_wifi' \in {esp_wifi, ConfigurationUndefined}

\* ------------------------------------------------------------- the actor
\* The closure of thread::spawn up to the loop: the driver objects are
\* created, a failure panics the thread and drops command_receiver.
ActorStart ==
    /\ pc = "start"
    /\ \E ok \in BOOLEAN : pc' = IF ok THEN "recv" ELSE "dead"
    /\ UNCHANGED <<command_channel, status_channel, send_result, configs,
                   esp_wifi, aps, status, current, consumed, driver_calls, sent>>

\* Variant: the engine runs on the store as it was and the mutation of the
\* command is dropped.
ActorRecvCommandNoMutation ==
    /\ pc = "recv"
    /\ command_channel # <<>>
    /\ LET c == Head(command_channel) IN
        /\ current' = Some(c)
        /\ consumed' = Append(consumed, c)
    /\ command_channel' = Tail(command_channel)
    /\ driver_calls' = <<>>
    /\ pc' = "reconfigure"
    /\ UNCHANGED <<status_channel, send_result, configs, esp_wifi, aps,
                   status, sent>>

\* recv_timeout returned Ok(c): the command's arm mutates the store.
ActorRecvCommand ==
    /\ pc = "recv"
    /\ command_channel # <<>>
    /\ LET c == Head(command_channel) IN
        /\ configs' = IF c.tag = "ConnectWPA2PSK"
                      THEN connect_wpa2_psk(configs, c.ssid, c.key)
                      ELSE make_ap_wpa2_psk(configs, c.ssid, c.key)
        /\ current' = Some(c)
        /\ consumed' = Append(consumed, c)
    /\ command_channel' = Tail(command_channel)
    /\ driver_calls' = <<>>
    /\ pc' = "reconfigure"
    /\ UNCHANGED <<status_channel, send_result, esp_wifi, aps, status, sent>>

NumTicks == Cardinality({i \in DOMAIN status_channel : status_channel[i].reply_to = 0})

\* Variant: the idle timeout runs a reconciliation pass (a periodic rescan).
ActorTimeoutRescan ==
    /\ pc = "recv"
    /\ command_channel = <<>>
    /\ NumTicks < MaxTicks
    /\ current' = None
    /\ driver_calls' = <<>>
    /\ pc' = "reconfigure"
    /\ UNCHANGED <<command_channel, status_channel, send_result, configs,
                   esp_wifi, aps, status, consumed, sent>>

\* recv_timeout returned Err(Timeout): no command within WIFI_SCAN_PERIOD.
ActorTimeout ==
    /\ pc = "recv"
    /\ command_channel = <<>>
    /\ NumTicks < MaxTicks
    /\ status' = Some(Disconnected)
    /\ current' = None
    /\ driver_calls' = <<>>
    /\ pc' = "send"
    /\ UNCHANGED <<command_channel, status_channel, send_result, configs,
                   esp_wifi, aps, consumed, sent>>

\* Variant: a rejected access point is tried a second time in the same pass.
ReconfigureNoClientsRetry ==
    /\ pc = "reconfigure"
    /\ is_empty(configs.client_configs)
    /\ LET ap_config == configs.ap_config IN
       IF is_some(ap_config)
       THEN LET target == ConfigurationAccessPoint(unwrap(ap_config)) IN
            \/ /\ set_configuration(target, TRUE)
               /\ status' = Some(ApOnly(unwrap(ap_config).ssid))
            \/ \E ok \in BOOLEAN :
               /\ driver_calls' = driver_calls \o
                      << SetConfigurationCall(target, FALSE),
                         SetConfigurationCall(target, ok) >>
               /\ esp_wifi' = IF ok THEN target ELSE ConfigurationUndefined
               /\ status' = IF ok THEN Some(ApOnly(unwrap(ap_config).ssid))
                                  ELSE Some(Error(Fatal("Failed to create AP")))
       ELSE /\ status' = Some(Disconnected)
            /\ UNCHANGED <<esp_wifi, driver_calls>>
    /\ pc' = "send"
    /\ UNCHANGED <<command_channel, status_channel, send_result, configs, aps,
                   current, consumed, sent>>

\* reconfigure_wifi, branch client_configs.is_empty()
ReconfigureNoClients ==
    /\ pc = "reconfigure"
    /\ is_empty(configs.client_configs)
    /\ LET ap_config == configs.ap_config IN
       IF is_some(ap_config)
       THEN \E ok \in BOOLEAN :
              /\ set_configuration(ConfigurationAccessPoint(unwrap(ap_config)), ok)
              /\ status' = IF ok THEN Some(ApOnly(unwrap(ap_config).ssid))
                                 ELSE Some(Error(Fatal("Failed to create AP")))
       ELSE /\ status' = Some(Disconnected)
            /\ UNCHANGED <<esp_wifi, driver_calls>>
    /\ pc' = "send"
    /\ UNCHANGED <<command_channel, status_channel, send_result, configs, aps,
                   current, consumed, sent>>

RECURSIVE Reverse(_)
Reverse(v) == IF v = <<>> THEN <<>> ELSE Append(Reverse(Tail(v)), Head(v))

\* Variant: the scan result is walked from its last entry.
into_iter_rev(v) == Reverse(v)

\* Vec::into_iter: the scan result in the order the driver returned it.
into_iter(v) == v

\* Variant: a failed scan counts as an empty scan (unwrap_or_default).
ReconfigureScanSwallow ==
    /\ pc = "reconfigure"
    /\ ~is_empty(configs.client_configs)
    /\ \/ /\ driver_calls' = Append(driver_calls, ScanCall(FALSE, <<>>))
          /\ aps' = <<>>
       \/ \E result \in ScanResults :
          /\ driver_calls' = Append(driver_calls, ScanCall(TRUE, result))
          /\ aps' = into_iter(result)
    /\ pc' = "iterate"
    /\ UNCHANGED <<command_channel, status_channel, send_result, configs,
                   esp_wifi, status, current, consumed, sent>>

\* reconfigure_wifi, else branch: esp_wifi.scan()
ReconfigureScan ==
    /\ pc = "reconfigure"
    /\ ~is_empty(configs.client_configs)
    /\ \/ /\ driver_calls' = Append(driver_calls, ScanCall(FALSE, <<>>))
          /\ status' = Some(Error(FromEspError))
          /\ pc' = "send"
          /\ UNCHANGED aps
       \/ \E result \in ScanResults :
          /\ driver_calls' = Append(driver_calls, ScanCall(TRUE, result))
          /\ aps' = into_iter(result)
          /\ pc' = "iterate"
          /\ UNCHANGED status
    /\ UNCHANGED <<command_channel, status_channel, send_result, configs,
                   esp_wifi, current, consumed, sent>>

\* Variant: the access-point test comes first in the if-chain.
overall_config_ap_first(ap_config, client_config) ==
    IF is_some(ap_config)
    THEN ConfigurationAccessPoint(unwrap(ap_config))
    ELSE ConfigurationClient(unwrap(client_config))

\* The configuration the loop body builds for a matching scan entry.
overall_config(ap_config, client_config) ==
    IF is_some(ap_config) /\ is_some(client_config)
    THEN ConfigurationMixed(unwrap(client_config), unwrap(ap_config))
    ELSE IF is_some(ap_config)
    THEN ConfigurationAccessPoint(unwrap(ap_config))
    ELSE ConfigurationClient(unwrap(client_config))

\* Variant: with no match the stored access point is brought up.
ReconfigureLoopEndApFallback ==
    /\ pc = "iterate"
    /\ aps = <<>>
    /\ IF is_some(configs.ap_config)
       THEN /\ set_configuration(
                  ConfigurationAccessPoint(unwrap(configs.ap_config)), TRUE)
            /\ status' = Some(ApOnly(unwrap(configs.ap_config).ssid))
       ELSE /\ status' = Some(Disconnected)
            /\ UNCHANGED <<esp_wifi, driver_calls>>
    /\ pc' = "send"
    /\ UNCHANGED <<command_channel, status_channel, send_result, configs,
                   aps, current, consumed, sent>>

\* `for ap in aps` when the iterator is exhausted: the fall-through after
\* the loop.
ReconfigureLoopEnd ==
    /\ pc = "iterate"
    /\ aps = <<>>
    /\ status' = Some(Disconnected)
    /\ pc' = "send"
    /\ UNCHANGED <<command_channel, status_channel, send_result, configs,
                   esp_wifi, aps, current, consumed, driver_calls, sent>>

\* Variant: a failed apply ends the pass with an error.
ReconfigureLoopBodyStop ==
    /\ pc = "iterate"
    /\ aps # <<>>
    /\ LET ap == Head(aps)
           client_config == get(configs.client_configs, ap.ssid)
       IN IF is_some(client_config)
          THEN \E ok \in BOOLEAN :
                 /\ set_configuration(
                       overall_config(configs.ap_config, client_config), ok)
                 /\ status' = IF ok
                              THEN Some(Connected(unwrap(client_config).ssid,
                                                  ap.signal_strength))
                              ELSE Some(Error(Fatal("Failed to connect")))
                 /\ pc' = "send"
                 /\ aps' = <<>>
          ELSE /\ aps' = Tail(aps)
               /\ UNCHANGED <<status, pc, esp_wifi, driver_calls>>
    /\ UNCHANGED <<command_channel, status_channel, send_result, configs,
                   current, consumed, sent>>

\* Variant: the result of set_configuration is not looked at.
ReconfigureLoopBodyIgnoreError ==
    /\ pc = "iterate"
    /\ aps # <<>>
    /\ LET ap == Head(aps)
           client_config == get(configs.client_configs, ap.ssid)
       IN IF is_some(client_config)
          THEN \E ok \in BOOLEAN :
                 /\ set_configuration(
                       overall_config(configs.ap_config, client_config), ok)
                 /\ status' = Some(Connected(unwrap(client_config).ssid,
                                             ap.signal_strength))
                 /\ pc' = "send"
                 /\ aps' = <<>>
          ELSE /\ aps' = Tail(aps)
               /\ UNCHANGED <<status, pc, esp_wifi, driver_calls>>
    /\ UNCHANGED <<command_channel, status_channel, send_result, configs,
                   current, consumed, sent>>

\* One turn of `for ap in aps`.
ReconfigureLoopBody ==
    /\ pc = "iterate"
    /\ aps # <<>>
    /\ LET ap == Head(aps)
           client_config == get(configs.client_configs, ap.ssid)
       IN IF is_some(client_config)
          THEN \E ok \in BOOLEAN :
                 /\ set_configuration(
                       overall_config(configs.ap_config, client_config), ok)
                 /\ IF ok
                    THEN /\ status' = Some(Connected(unwrap(client_config).ssid,
                                                     ap.signal_strength))
                         /\ pc' = "send"
                         /\ aps' = <<>>
                    ELSE /\ aps' = Tail(aps)
                         /\ UNCHANGED <<status, pc>>
          ELSE /\ aps' = Tail(aps)
               /\ UNCHANGED <<status, pc, esp_wifi, driver_calls>>
    /\ UNCHANGED <<command_channel, status_channel, send_result, configs,
                   current, consumed, sent>>

\* Variant: the thread ends after it has sent an Error.
ActorSendStopAfterError ==
    /\ pc = "send"
    /\ status_channel' = Append(status_channel,
                                [status |-> unwrap(status),
                                 reply_to |-> IF is_some(current)
                                              THEN unwrap(current).seq ELSE 0])
    /\ status' = None
    /\ current' = None
    /\ driver_calls' = <<>>
    /\ pc' = IF unwrap(status).tag = "Error" THEN "dead" ELSE "recv"
    /\ UNCHANGED <<command_channel, send_result, configs, esp_wifi, aps,
                   consumed, sent>>

\* ghost: the seq of the command the running iteration answers, 0 for a tick.
reply_to == IF is_some(current) THEN unwrap(current).seq ELSE 0

\* status_sender.send(status).unwrap(); the field reply_to is ghost.
ActorSend ==
    /\ pc = "send"
    /\ status_channel' = Append(status_channel,
                                [status |-> unwrap(status), reply_to |-> reply_to])
    /\ status' = None
    /\ current' = None
    /\ driver_calls' = <<>>
    /\ pc' = "recv"
    /\ UNCHANGED <<command_channel, send_result, configs, esp_wifi, aps,
                   consumed, sent>>

Next ==
    \/ add_network_wpa2_psk
    \/ set_ap_wpa2_psk
    \/ ActorStart
    \/ ActorRecvCommand
    \/ ActorTimeout
    \/ ReconfigureNoClients
    \/ ReconfigureScan
    \/ ReconfigureLoopEnd
    \/ ReconfigureLoopBody
    \/ ActorSend

Spec == Init /\ [][Next]_vars

\* The specification for the liveness properties. Termination of a pass
\* and the order of the commands do not depend on the keys, on the name of
\* the access point nor on the signal strengths, so the callers use one key
\* per kind of command and one access-point name, and the driver reports
\* one strength and every network once; everything else is as in Spec.
LiveKeys == {"secret", "showscreen"}
LiveApSSIDs == {"bricc"}
LiveStrengths == {10}

LiveInputs ==
    /\ \A i \in DOMAIN command_channel :
          /\ command_channel[i].key \in LiveKeys
          /\ command_channel[i].tag = "CreateApWPA2PSK"
                => command_channel[i].ssid \in LiveApSSIDs
    /\ \A i \in DOMAIN driver_calls :
          LET result == driver_calls[i].result IN
          /\ \A k \in DOMAIN result :
                result[k].signal_strength \in LiveStrengths
          /\ \A k, l \in DOMAIN result :
                result[k].ssid = result[l].ssid => k = l

LiveNext ==
    \/ add_network_wpa2_psk /\ LiveInputs'
    \/ set_ap_wpa2_psk /\ LiveInputs'
    \/ ActorStart
    \/ ActorRecvCommand
    \/ ActorTimeout
    \/ ReconfigureNoClients
    \/ ReconfigureScan /\ LiveInputs'
    \/ ReconfigureLoopEnd
    \/ ReconfigureLoopBody
    \/ ActorSend

\* The actor thread is scheduled and every driver call returns: a step of
\* the thread that stays possible is taken. Nothing obliges a caller to
\* make a handle call, nor the wait to time out.
FairSpec ==
    /\ Init
    /\ [][LiveNext]_vars
    /\ WF_vars(ActorStart)
    /\ WF_vars(ActorRecvCommand)
    /\ WF_vars(ReconfigureNoClients)
    /\ WF_vars(ReconfigureScan /\ LiveInputs')
    /\ WF_vars(ReconfigureLoopEnd)
    /\ WF_vars(ReconfigureLoopBody)
    /\ WF_vars(ActorSend)

\* ------------------------------------------------- reading the ghost logs
\* A reconciliation pass has ended and its status is about to be sent.
PassDone == pc = "send" /\ is_some(current)
\* The set_configuration calls of the running pass, in order.
SetCalls(calls) == SelectSeq(calls, LAMBDA d : d.op = "set_configuration")
\* The pass scanned and the scan succeeded.
ScanOk(calls) == calls # <<>> /\ calls[1].op = "scan" /\ calls[1].ok
ScanResult(calls) == calls[1].result
\* The scan entries whose name is registered, in scan order.
Matches(scan, map) == SelectSeq(scan, LAMBDA e : e.ssid \in DOMAIN map)
\* The driver accepted everything it was asked in the running pass.
NoFailedCall(calls) == \A i \in DOMAIN calls : calls[i].ok
\* reply_to of every status sent so far; of those that answer a command.
ReplyTos == [i \in DOMAIN status_channel |-> status_channel[i].reply_to]
Replies == SelectSeq(status_channel, LAMBDA m : m.reply_to # 0)
Seqs(cmds) == [i \in DOMAIN cmds |-> cmds[i].seq]
Front(q) == SubSeq(q, 1, Len(q) - 1)
Last(q) == q[Len(q)]

\* ---------------------------------------------------------------- claims

\* C1: commands are consumed strictly in send order (the commands consumed
\* followed by the commands still queued are the commands 1, 2, 3, ... as
\* they were sent), and every consumed command gets exactly one status
\* before the next command is consumed: the statuses that answer commands
\* are, in order, those of the commands consumed, the last one missing only
\* while its pass is still running.
C1_CommandOrder ==
    /\ LET all == consumed \o command_channel
       IN \A i \in DOMAIN all : all[i].seq = i
    /\ [i \in DOMAIN Replies |-> Replies[i].reply_to] =
         IF is_some(current) THEN Front(Seqs(consumed)) ELSE Seqs(consumed)

C1_Witness ==
    /\ pc = "recv"
    /\ ReplyTos = <<1, 0, 2>>

C3_IdleTick ==
    [][ /\ (pc = "recv" /\ command_channel = <<>> /\ pc' # pc) =>
              /\ pc' = "send"
              /\ status' = Some(Disconnected)
              /\ ~is_some(current')
              /\ driver_calls' = <<>>
              /\ configs' = configs
              /\ esp_wifi' = esp_wifi
              /\ status_channel' = status_channel
        /\ (pc = "send" /\ ~is_some(current)) =>
              /\ driver_calls' = <<>>
              /\ configs' = configs
              /\ esp_wifi' = esp_wifi
              /\ IF pc' = pc
                 THEN status_channel' = status_channel
                 ELSE /\ pc' = "recv"
                      /\ status_channel' =
                           Append(status_channel,
                                  [status |-> Disconnected, reply_to |-> 0])
      ]_vars

C3_Witness ==
    /\ pc = "recv"
    /\ status_channel # <<>>
    /\ Last(status_channel) = [status |-> Disconnected, reply_to |-> 0]
    /\ ~is_empty(configs.client_configs)
    /\ is_some(configs.ap_config)
    /\ esp_wifi.mode = "Mixed"

\* C4: a CreateApWPA2PSK(name, key) processed with an empty client mapping
\* and an accepting driver makes exactly one driver call, the apply of the
\* access-point-only configuration for name (so no scan), and the status is
\* ApOnly(name).
C4_ApOnly ==
    (/\ PassDone
     /\ unwrap(current).tag = "CreateApWPA2PSK"
     /\ is_empty(configs.client_configs)
     /\ NoFailedCall(driver_calls)) =>
        LET c == unwrap(current)
            target == [mode |-> "AccessPoint", client |-> None,
                       ap |-> Some([ssid |-> c.ssid, password |-> c.key,
                                    channel |-> Some(1),
                                    auth_method |-> "WPA2WPA3Personal"])]
        IN /\ driver_calls = <<SetConfigurationCall(target, TRUE)>>
           /\ esp_wifi = target
           /\ status = Some(ApOnly(c.ssid))

C4_Witness ==
    /\ PassDone
    /\ Len(consumed) = 2
    /\ consumed[1].tag = "CreateApWPA2PSK" /\ consumed[1].ssid = "bricc"
    /\ consumed[2].tag = "CreateApWPA2PSK" /\ consumed[2].ssid = "home"
    /\ status = Some(ApOnly("home"))

\* C5 as stated: a ConnectWPA2PSK(name, key) processed with no access point
\* set, a successful scan that contains name and an accepting driver applies
\* the Client target of name and reports Connected(name, s), s the strength
\* of a scan entry of name.
C5_Original ==
    (/\ PassDone
     /\ unwrap(current).tag = "ConnectWPA2PSK"
     /\ ~is_some(configs.ap_config)
     /\ ScanOk(driver_calls)
     /\ \E i \in DOMAIN ScanResult(driver_calls) :
            ScanResult(driver_calls)[i].ssid = unwrap(current).ssid
     /\ NoFailedCall(driver_calls)) =>
        LET c == unwrap(current)
            scan == ScanResult(driver_calls)
        IN /\ esp_wifi.mode = "Client"
           /\ unwrap(esp_wifi.client).ssid = c.ssid
           /\ \E i \in DOMAIN scan :
                /\ scan[i].ssid = c.ssid
                /\ status = Some(Connected(c.ssid, scan[i].signal_strength))

\* C5 amended: the same, provided no other registered network comes earlier
\* in the scan than the first entry of name; s is the strength of that
\* first entry.
C5_ConnectedClientOnly ==
    (/\ PassDone
     /\ unwrap(current).tag = "ConnectWPA2PSK"
     /\ ~is_some(configs.ap_config)
     /\ ScanOk(driver_calls)
     /\ Matches(ScanResult(driver_calls), configs.client_configs) # <<>>
     /\ Matches(ScanResult(driver_calls), configs.client_configs)[1].ssid
            = unwrap(current).ssid
     /\ NoFailedCall(driver_calls)) =>
        LET c == unwrap(current)
            m == Matches(ScanResult(driver_calls), configs.client_configs)[1]
            target == [mode |-> "Client", ap |-> None,
                       client |-> Some([ssid |-> c.ssid, password |-> c.key,
                                        channel |-> None])]
        IN /\ Last(driver_calls) = SetConfigurationCall(target, TRUE)
           /\ Len(SetCalls(driver_calls)) = 1
           /\ esp_wifi = target
           /\ status = Some(Connected(c.ssid, m.signal_strength))

C5_Witness ==
    /\ PassDone
    /\ unwrap(current).tag = "ConnectWPA2PSK"
    /\ unwrap(current).ssid = "home"
    /\ DOMAIN configs.client_configs = {"home", "other"}
    /\ ~is_some(configs.ap_config)
    /\ ScanOk(driver_calls)
    /\ ScanResult(driver_calls) =
         << [ssid |-> "home", signal_strength |-> 40],
            [ssid |-> "other", signal_strength |-> 10] >>
    /\ status = Some(Connected("home", 40))

\* C6: a pass with an access point set, a successful scan in which a
\* registered network appears and an accepting driver applies, as its last
\* driver call, Mixed(config of the first registered network of the scan,
\* stored access point) and reports Connected for that network with the
\* strength of that scan entry, not ApOnly.
C6_Mixed ==
    (/\ PassDone
     /\ is_some(configs.ap_config)
     /\ ScanOk(driver_calls)
     /\ Matches(ScanResult(driver_calls), configs.client_configs) # <<>>
     /\ NoFailedCall(driver_calls)) =>
        LET m == Matches(ScanResult(driver_calls), configs.client_configs)[1]
            target == [mode |-> "Mixed",
                       client |-> Some(configs.client_configs[m.ssid]),
                       ap |-> configs.ap_config]
        IN /\ Last(driver_calls) = SetConfigurationCall(target, TRUE)
           /\ esp_wifi = target
           /\ status = Some(Connected(m.ssid, m.signal_strength))
           /\ unwrap(status).tag # "ApOnly"

C6_Witness ==
    /\ PassDone
    /\ unwrap(current).tag = "CreateApWPA2PSK"
    /\ esp_wifi.mode = "Mixed"
    /\ unwrap(esp_wifi.ap).ssid = "home"
    /\ status = Some(Connected("other", 10))

\* C7: with two or more registered networks, a successful scan that
\* contains at least two of them and an accepting driver, the network
\* applied and reported is the registered one that comes first in the scan,
\* whatever the strengths and whichever was registered first.
C7_FirstInScanOrder ==
    (/\ PassDone
     /\ Cardinality(DOMAIN configs.client_configs) >= 2
     /\ ScanOk(driver_calls)
     /\ Cardinality({e.ssid : e \in
            {ScanResult(driver_calls)[i] : i \in DOMAIN ScanResult(driver_calls)}}
            \cap DOMAIN configs.client_configs) >= 2
     /\ NoFailedCall(driver_calls)) =>
        LET m == Matches(ScanResult(driver_calls), configs.client_configs)[1]
        IN /\ status = Some(Connected(m.ssid, m.signal_strength))
           /\ esp_wifi.client = Some(configs.client_configs[m.ssid])
           /\ Len(SetCalls(driver_calls)) = 1

C7_Witness ==
    /\ PassDone
    /\ unwrap(current).tag = "ConnectWPA2PSK"
    /\ unwrap(current).ssid = "home"
    /\ DOMAIN configs.client_configs = {"home", "other"}
    /\ ScanOk(driver_calls)
    /\ ScanResult(driver_calls) =
         << [ssid |-> "home", signal_strength |-> 10],
            [ssid |-> "other", signal_strength |-> 40] >>
    /\ status = Some(Connected("home", 10))

\* C8: no step of a pass changes the store, and a pass with a non-empty
\* client mapping whose successful scan contains no registered name ends
\* with status Disconnected and without a set_configuration call, the radio
\* left as it was, also with an access point set.
C8_NoMatch ==
    [][ /\ (pc \in {"reconfigure", "iterate", "send"}) => configs' = configs
        /\ (pc \in {"reconfigure", "iterate"} /\ ScanOk(driver_calls')
            /\ Matches(ScanResult(driver_calls'), configs.client_configs) = <<>>)
              => /\ SetCalls(driver_calls') = <<>>
                 /\ esp_wifi' = esp_wifi
                 /\ (pc' = "send" => status' = Some(Disconnected))
                 /\ pc' \in {"iterate", "send"}
      ]_vars

C8_Witness ==
    /\ PassDone
    /\ is_some(configs.ap_config)
    /\ ScanOk(driver_calls)
    /\ Len(ScanResult(driver_calls)) = 2
    /\ Matches(ScanResult(driver_calls), configs.client_configs) = <<>>
    /\ status = Some(Disconnected)

\* C9: the client mapping holds exactly the names of the ConnectWPA2PSK
\* commands consumed so far, each with the key of the last such command for
\* that name, whatever the scans and the driver did in between.
C9_LastWriteWins ==
    LET regs == SelectSeq(consumed, LAMBDA c : c.tag = "ConnectWPA2PSK")
        map == configs.client_configs
    IN /\ DOMAIN map = {regs[i].ssid : i \in DOMAIN regs}
       /\ \A i \in DOMAIN regs :
            (\A j \in DOMAIN regs : (j > i) => regs[j].ssid # regs[i].ssid)
              => /\ map[regs[i].ssid].ssid = regs[i].ssid
                 /\ map[regs[i].ssid].password = regs[i].key

C9_Witness ==
    /\ pc = "recv"
    /\ Len(consumed) = 2
    /\ consumed[1].tag = "ConnectWPA2PSK" /\ consumed[2].tag = "ConnectWPA2PSK"
    /\ consumed[1].ssid = consumed[2].ssid
    /\ consumed[1].key # consumed[2].key
    /\ Len(status_channel) = 2
    /\ status_channel[1].status.tag = "Error"
    /\ DOMAIN configs.client_configs = {consumed[2].ssid}

\* C10: from the empty store, CreateApWPA2PSK("bricc", "showscreen") with an
\* accepting driver is answered by ApOnly("bricc"); ConnectWPA2PSK("home",
\* "secret") processed next with the scan [("other", 10), ("home", 40)] and
\* an accepting driver applies Mixed(home, bricc) and is answered by
\* Connected("home", 40), the second answer after the first.
C10_EndToEnd ==
    LET ap == [ssid |-> "bricc", password |-> "showscreen", channel |-> Some(1),
               auth_method |-> "WPA2WPA3Personal"]
        home == [ssid |-> "home", password |-> "secret", channel |-> None]
        first == CreateApWPA2PSK("bricc", "showscreen", 1)
        second == ConnectWPA2PSK("home", "secret", 2)
        scan == << [ssid |-> "other", signal_strength |-> 10],
                   [ssid |-> "home", signal_strength |-> 40] >>
    IN /\ (PassDone /\ consumed = <<first>> /\ NoFailedCall(driver_calls)) =>
             /\ status = Some(ApOnly("bricc"))
             /\ Replies = <<>>
       /\ (/\ PassDone
           /\ consumed = <<first, second>>
           /\ Replies # <<>> /\ Replies[1].status.tag # "Error"
           /\ driver_calls # <<>> /\ driver_calls[1] = ScanCall(TRUE, scan)
           /\ NoFailedCall(driver_calls)) =>
             /\ Replies = << [status |-> ApOnly("bricc"), reply_to |-> 1] >>
             /\ Last(driver_calls) =
                  SetConfigurationCall(ConfigurationMixed(home, ap), TRUE)
             /\ esp_wifi = ConfigurationMixed(home, ap)
             /\ status = Some(Connected("home", 40))

C10_Witness ==
    /\ PassDone
    /\ status_channel = << [status |-> ApOnly("bricc"), reply_to |-> 1] >>
    /\ ScanOk(driver_calls)
    /\ ScanResult(driver_calls) =
         << [ssid |-> "other", signal_strength |-> 10],
            [ssid |-> "home", signal_strength |-> 40] >>
    /\ status = Some(Connected("home", 40))
    /\ esp_wifi.mode = "Mixed"
    /\ consumed = << CreateApWPA2PSK("bricc", "showscreen", 1),
                     ConnectWPA2PSK("home", "secret", 2) >>

\* C11: a handle call (the step that counts one more call) changes nothing
\* but the command channel and its own return value: while the receiver
\* exists it appends exactly one command and returns Ok, whatever the passes
\* did or will do; when the receiver is gone it returns Err and enqueues
\* nothing. No step of the actor changes what a handle call returned, so a
\* failed pass shows only as an Error status.
C11_HandleSend ==
    [][ /\ (sent' # sent) =>
              /\ sent' = sent + 1
              /\ UNCHANGED <<status_channel, pc, configs, esp_wifi, aps,
                             status, current, consumed, driver_calls>>
              /\ IF pc = "dead"
                 THEN /\ send_result' = "Err"
                      /\ command_channel' = command_channel
                 ELSE /\ send_result' = "Ok"
                      /\ Len(command_channel') = Len(command_channel) + 1
                      /\ Front(command_channel') = command_channel
                      /\ Last(command_channel').seq = sent'
        /\ (sent' = sent) =>
              /\ send_result' = send_result
              /\ Len(command_channel') <= Len(command_channel)
      ]_vars

C11_Witness ==
    /\ send_result = "Ok"
    /\ sent = 2
    /\ status_channel # <<>>
    /\ status_channel[1].status.tag = "Error"
    /\ Len(command_channel) = 1
    /\ command_channel[1].seq = 2

\* The pass scanned and the scan failed.
ScanFailed(calls) == calls # <<>> /\ calls[1].op = "scan" /\ ~calls[1].ok
\* The store holds what the command c put into it.
Holds(store, c) ==
    IF c.tag = "ConnectWPA2PSK"
    THEN /\ c.ssid \in DOMAIN store.client_configs
         /\ store.client_configs[c.ssid] =
              [ssid |-> c.ssid, password |-> c.key, channel |-> None]
    ELSE store.ap_config =
           Some([ssid |-> c.ssid, password |-> c.key, channel |-> Some(1),
                 auth_method |-> "WPA2WPA3Personal"])

\* C13: once the scan of a pass has failed the pass makes no further driver
\* call (so no set_configuration), the radio stays as it was, the status
\* computed is Error(Fatal), the store keeps the mutation of the command,
\* and the actor sends the status and returns to its wait, where it takes
\* the next command.
C13_ScanFailure ==
    [][ /\ ScanFailed(driver_calls') =>
              /\ driver_calls' = <<ScanCall(FALSE, <<>>)>>
              /\ esp_wifi' = esp_wifi
              /\ pc' = "send"
              /\ status' =
                   Some(Error(Fatal("Unknown error during wifi operation")))
              /\ ~is_empty(configs'.client_configs)
              /\ Holds(configs', unwrap(current'))
        /\ (ScanFailed(driver_calls) /\ pc' # pc) =>
              /\ pc' = "recv"
              /\ configs' = configs
              /\ status_channel' =
                   Append(status_channel,
                          [status |-> unwrap(status),
                           reply_to |-> unwrap(current).seq])
        /\ (pc = "recv" /\ command_channel # <<>> /\ pc' # pc) =>
              /\ pc' = "reconfigure"
              /\ consumed' = Append(consumed, Head(command_channel))
      ]_vars

C13_Witness ==
    /\ PassDone
    /\ ReplyTos = <<1>>
    /\ status_channel[1].status =
         Error(Fatal("Unknown error during wifi operation"))
    /\ Len(consumed) = 2
    /\ consumed[1].tag = "ConnectWPA2PSK"
    /\ unwrap(status).tag = "Connected"

\* A step of a caller thread: a handle call.
CallerStep == sent' # sent
\* A step of the actor thread: its position or its locals change.
ActorStep == <<pc, aps, status, current, consumed, driver_calls>>' #
             <<pc, aps, status, current, consumed, driver_calls>>

\* C14: in every interleaving the store and the radio change only in steps
\* of the actor thread, never in the same step as a handle call; a handle
\* call changes only the command channel (one command appended, or none
\* when the receiver is gone) and its return value; the status channel
\* changes only by the actor's send, which appends one status; the program
\* has no step that reads the status channel.
C14_SingleOwner ==
    [][ /\ (configs' # configs \/ esp_wifi' # esp_wifi) =>
              /\ ActorStep
              /\ ~CallerStep
              /\ pc \in {"recv", "reconfigure", "iterate"}
        /\ CallerStep =>
              /\ ~ActorStep
              /\ UNCHANGED <<configs, esp_wifi, status_channel>>
              /\ \/ command_channel' = command_channel
                 \/ /\ Len(command_channel') = Len(command_channel) + 1
                    /\ Front(command_channel') = command_channel
        /\ (status_channel' # status_channel) =>
              /\ pc = "send" /\ pc' = "recv"
              /\ Front(status_channel') = status_channel
              /\ UNCHANGED <<configs, esp_wifi, command_channel>>
      ]_vars

C14_Witness ==
    /\ pc = "iterate"
    /\ Len(driver_calls) = 2
    /\ esp_wifi.mode = "Undefined"
    /\ Len(command_channel) = 1
    /\ sent = 2
    /\ status_channel # <<>>

\* C16: the step that consumes a command mutates only the field of that
\* command. CreateApWPA2PSK(name, key) sets ap_config to {name, key,
\* channel 1, WPA2WPA3Personal}, replacing what was there, and leaves the
\* client mapping as it was; ConnectWPA2PSK(name, key) leaves ap_config as
\* it was, sets the entry of name to {name, key, no channel} and leaves
\* every other entry as it was. Every queued command can be consumed: the
\* mutation has no failure case.
C16_StoreMutation ==
    [][ /\ (consumed' # consumed) =>
              LET c == Last(consumed')
                  old == configs.client_configs
                  new == configs'.client_configs
              IN IF c.tag = "CreateApWPA2PSK"
                 THEN /\ configs'.ap_config =
                           Some([ssid |-> c.ssid, password |-> c.key,
                                 channel |-> Some(1),
                                 auth_method |-> "WPA2WPA3Personal"])
                      /\ new = old
                 ELSE /\ configs'.ap_config = configs.ap_config
                      /\ DOMAIN new = DOMAIN old \cup {c.ssid}
                      /\ new[c.ssid] = [ssid |-> c.ssid, password |-> c.key,
                                        channel |-> None]
                      /\ \A n \in DOMAIN old \ {c.ssid} : new[n] = old[n]
        /\ (consumed' = consumed) => configs' = configs
        /\ (pc = "recv" /\ command_channel # <<>>) => ENABLED ActorRecvCommand
      ]_vars

C16_Witness ==
    /\ pc = "reconfigure"
    /\ Len(consumed) = 2
    /\ consumed[1].tag = "ConnectWPA2PSK"
    /\ consumed[2].tag = "CreateApWPA2PSK"
    /\ DOMAIN configs.client_configs = {consumed[1].ssid}
    /\ is_some(configs.ap_config)
    /\ unwrap(configs.ap_config).ssid = consumed[2].ssid

\* The statuses sent so far and the one the actor is about to send.
AllStatuses ==
    {status_channel[i].status : i \in DOMAIN status_channel}
        \cup {status[i] : i \in DOMAIN status}

\* C17: every Error status the actor computes or has sent is Fatal, never
\* NetworkNotFound: it is Fatal("Unknown error during wifi operation") when
\* the scan of the pass failed and Fatal("Failed to create AP") when the
\* access-point apply of a pass with no client network failed.
C17_OnlyFatal ==
    /\ \A st \in AllStatuses :
         st.tag = "Error" =>
            /\ st.err.kind = "Fatal"
            /\ st.err.text \in {"Unknown error during wifi operation",
                                "Failed to create AP"}
    /\ (pc = "send" /\ unwrap(status).tag = "Error") =>
          /\ Len(driver_calls) = 1
          /\ ~driver_calls[1].ok
          /\ unwrap(status).err.text =
               IF driver_calls[1].op = "scan"
               THEN "Unknown error during wifi operation"
               ELSE "Failed to create AP"
    /\ (pc = "send" /\ ScanFailed(driver_calls)) => unwrap(status).tag = "Error"
    /\ (pc = "send" /\ is_empty(configs.client_configs)
          /\ ~NoFailedCall(driver_calls)) => unwrap(status).tag = "Error"

C17_Witness ==
    /\ pc = "recv"
    /\ Len(status_channel) = 2
    /\ status_channel[1].status = Error(Fatal("Failed to create AP"))
    /\ status_channel[2].status =
         Error(Fatal("Unknown error during wifi operation"))

\* C18: whenever the engine runs, a command has just mutated the store, so
\* the client mapping is non-empty or an access point is set; the branch
\* "no client and no access point" is never taken, and a Disconnected
\* computed in answer to a command comes from a pass with a non-empty client
\* mapping and a successful scan.
C18_EngineNeverOnEmptyStore ==
    /\ (pc \in {"reconfigure", "iterate"}) =>
          /\ is_some(current)
          /\ ~is_empty(configs.client_configs) \/ is_some(configs.ap_config)
          /\ Holds(configs, unwrap(current))
    /\ (PassDone /\ status = Some(Disconnected)) =>
          /\ ~is_empty(configs.client_configs)
          /\ ScanOk(driver_calls)
    /\ \A i \in DOMAIN status_channel :
          (status_channel[i].reply_to # 0
             /\ status_channel[i].status = Disconnected) =>
                \E j \in 1..status_channel[i].reply_to :
                    consumed[j].tag = "ConnectWPA2PSK"

C18_Witness ==
    /\ pc = "recv"
    /\ Len(status_channel) = 2
    /\ status_channel[1] = [status |-> ApOnly("bricc"), reply_to |-> 1]
    /\ status_channel[2] = [status |-> Disconnected, reply_to |-> 2]

\* C19: no step removes a registered name or unsets the access point.
\* While the client mapping is non-empty no access-point-only configuration
\* is applied and no ApOnly is computed; every ApOnly sent answers a command
\* consumed before the first ConnectWPA2PSK; and with a non-empty client
\* mapping the radio changes only in a pass whose successful scan contains
\* a registered network.
C19_StoreOnlyGrows ==
    [][ /\ DOMAIN configs.client_configs \subseteq DOMAIN configs'.client_configs
        /\ is_some(configs.ap_config) => is_some(configs'.ap_config)
        /\ ~is_empty(configs'.client_configs) =>
              /\ \A i \in DOMAIN driver_calls' :
                    driver_calls'[i].target.mode # "AccessPoint"
              /\ \A i \in DOMAIN status' : status'[i].tag # "ApOnly"
              /\ esp_wifi'.mode # "AccessPoint" \/ esp_wifi' = esp_wifi
        /\ \A i \in DOMAIN status_channel' :
              status_channel'[i].status.tag = "ApOnly" =>
                 \A j \in 1..status_channel'[i].reply_to :
                    consumed'[j].tag = "CreateApWPA2PSK"
        /\ (~is_empty(configs.client_configs) /\ esp_wifi' # esp_wifi) =>
              /\ ScanOk(driver_calls')
              /\ Matches(ScanResult(driver_calls'), configs.client_configs) # <<>>
      ]_vars

C19_Witness ==
    /\ PassDone
    /\ Len(consumed) = 2
    /\ consumed[1].tag = "ConnectWPA2PSK"
    /\ consumed[2].tag = "CreateApWPA2PSK"
    /\ status = Some(Disconnected)
    /\ esp_wifi = ConfigurationNone
    /\ ScanOk(driver_calls)
    /\ ScanResult(driver_calls) # <<>>

\* C20: when the actor is about to send Connected(n, s), n is a key of the
\* client mapping, the scan of the pass returned an entry (n, s), and the
\* last driver call of the pass is an accepted set_configuration of a Client
\* or Mixed target whose client network is n, which the radio now holds;
\* when it is about to send ApOnly(n), the client mapping is empty and the
\* last driver call is an accepted set_configuration of the access-point
\* configuration named n.
C20_StatusSound ==
    (pc = "send") =>
        LET st == unwrap(status) IN
        /\ (st.tag = "Connected") =>
              /\ st.ssid \in DOMAIN configs.client_configs
              /\ ScanOk(driver_calls)
              /\ \E i \in DOMAIN ScanResult(driver_calls) :
                    ScanResult(driver_calls)[i] =
                       [ssid |-> st.ssid, signal_strength |-> st.strength]
              /\ Last(driver_calls).op = "set_configuration"
              /\ Last(driver_calls).ok
              /\ Last(driver_calls).target.mode \in {"Client", "Mixed"}
              /\ Last(driver_calls).target.client =
                    Some(configs.client_configs[st.ssid])
              /\ unwrap(Last(driver_calls).target.client).ssid = st.ssid
              /\ esp_wifi = Last(driver_calls).target
        /\ (st.tag = "ApOnly") =>
              /\ is_empty(configs.client_configs)
              /\ driver_calls # <<>>
              /\ Last(driver_calls).op = "set_configuration"
              /\ Last(driver_calls).ok
              /\ Last(driver_calls).target.mode = "AccessPoint"
              /\ Last(driver_calls).target.ap = configs.ap_config
              /\ unwrap(configs.ap_config).ssid = st.ssid
              /\ esp_wifi = Last(driver_calls).target

C20_Witness ==
    /\ PassDone
    /\ status = Some(Connected("home", 40))
    /\ Len(driver_calls) = 3
    /\ ScanResult(driver_calls) =
         << [ssid |-> "home", signal_strength |-> 10],
            [ssid |-> "home", signal_strength |-> 40] >>
    /\ ~driver_calls[2].ok
    /\ Last(driver_calls).target.mode = "Mixed"

\* The actor thread is in its loop.
Running == pc \in {"recv", "reconfigure", "iterate", "send"}
\* The command with seq n is queued; it was consumed and answered.
Queued(n) == \E i \in DOMAIN command_channel : command_channel[i].seq = n
Answered(n) ==
    /\ \E i \in DOMAIN consumed : consumed[i].seq = n
    /\ \E i \in DOMAIN status_channel : status_channel[i].reply_to = n
\* A rejected access point has been reported.
ApErrorSent ==
    \E i \in DOMAIN status_channel :
        status_channel[i].status = Error(Fatal("Failed to create AP"))

\* C12: a pass with an empty client mapping in which the driver rejected
\* the access-point configuration made that one driver call and no other,
\* its status is Error(Fatal("Failed to create AP")) and the store holds the
\* new access point; the actor sends the status and returns to its wait
\* with the store unchanged, and every command queued after such an error
\* was sent is consumed and answered.
C12_ApRejected ==
    /\ [][ /\ (pc' = "send" /\ is_empty(configs'.client_configs)
                 /\ ~NoFailedCall(driver_calls')) =>
                 /\ Len(driver_calls') = 1
                 /\ driver_calls'[1] =
                      SetConfigurationCall(
                         [mode |-> "AccessPoint", client |-> None,
                          ap |-> configs'.ap_config], FALSE)
                 /\ status' = Some(Error(Fatal("Failed to create AP")))
                 /\ unwrap(current').tag = "CreateApWPA2PSK"
                 /\ Holds(configs', unwrap(current'))
           /\ (pc = "send" /\ status = Some(Error(Fatal("Failed to create AP")))
                 /\ pc' # pc) =>
                 /\ pc' = "recv"
                 /\ configs' = configs
                 /\ Last(status_channel').status = unwrap(status)
         ]_vars
    /\ \A n \in 1..MaxCmds : (ApErrorSent /\ Queued(n)) ~> Answered(n)

C12_Witness ==
    /\ pc = "recv"
    /\ Len(status_channel) = 2
    /\ status_channel[1] =
         [status |-> Error(Fatal("Failed to create AP")), reply_to |-> 1]
    /\ status_channel[2].reply_to = 2
    /\ esp_wifi.mode = "Undefined"
    /\ Len(consumed) = 2

\* C15: once the actor thread is in its loop it stays in it (no step ends
\* the thread), and every command that is queued while the thread is in its
\* loop is eventually consumed and answered by a status with its seq, also
\* when earlier passes ended in Error.
C15_Liveness ==
    /\ [][Running => Running']_vars
    /\ \A n \in 1..MaxCmds : (Running /\ Queued(n)) ~> Answered(n)

C15_Witness ==
    /\ pc = "recv"
    /\ command_channel = <<>>
    /\ Len(consumed) = 2
    /\ Len(status_channel) = 2
    /\ status_channel[1].status.tag = "Error"
    /\ status_channel[1].reply_to = 1
    /\ Answered(2)

TypeOK ==
    /\ pc \in {"start", "dead", "recv", "reconfigure", "iterate", "send"}
    /\ send_result \in {"none", "Ok", "Err"}
    /\ sent \in 0..MaxCmds
====
